---------------------------- MODULE Spec2Model ----------------------------
(***************************************************************************)
(* A model of app.py, the single-file Streamlit unit converter.            *)
(*                                                                         *)
(* Strings are sequences.  A raw input text and a formatted number are     *)
(* sequences of one-character strings; a unit label or a category id is    *)
(* one atomic element of such a sequence (none of them contains "|").      *)
(*                                                                         *)
(* Python floats are modelled by exact signed rationals num/den whose      *)
(* numerator and denominator are sequences of base-10000 limbs (most       *)
(* significant limb first, no leading zero limb, zero is the empty         *)
(* sequence), plus the special values inf, -inf and nan.  Binary rounding  *)
(* of the 53-bit mantissa is not modelled.                                 *)
(***************************************************************************)
EXTENDS Integers, Sequences, FiniteSets, TLC

(***************************************************************************)
(* Natural numbers as sequences of base-10000 limbs.                       *)
(***************************************************************************)
Base == 10 ^ 4

RECURSIVE StripZeros(_)
StripZeros(a) ==
    IF a = <<>> THEN <<>>
    ELSE IF Head(a) = 0 THEN StripZeros(Tail(a)) ELSE a

Zeros(n) == [i \in 1..n |-> 0]

PadTo(a, n) == Zeros(n - Len(a)) \o a

LessN(a, b) ==
    \/ Len(a) < Len(b)
    \/ /\ Len(a) = Len(b)
       /\ \E i \in 1..Len(a) :
            /\ a[i] < b[i]
            /\ \A j \in 1..(i - 1) : a[j] = b[j]

RECURSIVE AddRec(_, _, _, _)
AddRec(a, b, i, c) ==
    IF i = 0 THEN (IF c = 0 THEN <<>> ELSE <<c>>)
    ELSE LET s == a[i] + b[i] + c
         IN  Append(AddRec(a, b, i - 1, s \div Base), s % Base)

AddN(a, b) ==
    LET n == IF Len(a) > Len(b) THEN Len(a) ELSE Len(b)
    IN  AddRec(PadTo(a, n), PadTo(b, n), n, 0)

RECURSIVE SubRec(_, _, _, _)
SubRec(a, b, i, c) ==
    IF i = 0 THEN <<>>
    ELSE LET s == a[i] - b[i] - c
         IN  IF s < 0 THEN Append(SubRec(a, b, i - 1, 1), s + Base)
                      ELSE Append(SubRec(a, b, i - 1, 0), s)

\* a - b for a >= b
SubN(a, b) == StripZeros(SubRec(a, PadTo(b, Len(a)), Len(a), 0))

RECURSIVE MulSmallRec(_, _, _, _)
MulSmallRec(a, k, i, c) ==
    IF i = 0 THEN (IF c = 0 THEN <<>> ELSE <<c>>)
    ELSE LET s == a[i] * k + c
         IN  Append(MulSmallRec(a, k, i - 1, s \div Base), s % Base)

\* a * k for 0 <= k < Base
MulSmall(a, k) == IF k = 0 THEN <<>> ELSE MulSmallRec(a, k, Len(a), 0)

\* a times the number written by the first i limbs of b
RECURSIVE MulRec(_, _, _)
MulRec(a, b, i) ==
    IF i = 0 THEN <<>>
    ELSE LET p == MulRec(a, b, i - 1)
         IN  AddN(IF p = <<>> THEN <<>> ELSE Append(p, 0), MulSmall(a, b[i]))

MulN(a, b) ==
    IF a = <<>> \/ b = <<>> THEN <<>>
    ELSE IF a = <<1>> THEN b
    ELSE IF b = <<1>> THEN a
    ELSE MulRec(a, b, Len(b))

\* a * 10^k
MulPow10(a, k) ==
    IF a = <<>> THEN <<>> ELSE MulSmall(a, 10 ^ (k % 4)) \o Zeros(k \div 4)

\* the largest k in lo..hi with k * d <= r, given lo * d <= r
RECURSIVE QuotLimb(_, _, _, _)
QuotLimb(r, d, lo, hi) ==
    IF lo = hi THEN lo
    ELSE LET mid == (lo + hi + 1) \div 2
         IN  IF LessN(r, MulSmall(d, mid)) THEN QuotLimb(r, d, lo, mid - 1)
                                           ELSE QuotLimb(r, d, mid, hi)

\* the next limb k of a quotient q, r1 being the running remainder
DivLimb(q, r1, d, k) ==
    [q |-> IF q = <<>> /\ k = 0 THEN <<>> ELSE Append(q, k),
     r |-> IF k = 0 THEN r1 ELSE SubN(r1, MulSmall(d, k))]

\* one step of long division: bring down limb and divide
DivStep(q, r1, d) ==
    DivLimb(q, r1, d, IF LessN(r1, d) THEN 0 ELSE QuotLimb(r1, d, 1, Base - 1))

DivBring(p, d, limb) ==
    DivStep(p.q, IF p.r = <<>> /\ limb = 0 THEN <<>> ELSE Append(p.r, limb), d)

\* quotient and remainder of the number written by the first i limbs of n
RECURSIVE DivRec(_, _, _)
DivRec(n, d, i) ==
    IF i = 0 THEN [q |-> <<>>, r |-> <<>>]
    ELSE DivBring(DivRec(n, d, i - 1), d, n[i])

\* quotient and remainder of n by d, d > 0
DivModN(n, d) == DivRec(n, d, Len(n))

\* the limbs of the number written by the decimal digits ds
FromPadded(p) ==
    StripZeros([j \in 1..(Len(p) \div 4) |->
        p[4 * j - 3] * 1000 + p[4 * j - 2] * 100 + p[4 * j - 1] * 10 + p[4 * j]])

FromDigits(ds) == FromPadded(PadTo(ds, 4 * ((Len(ds) + 3) \div 4)))

\* the decimal digits of a, without leading zeros
ToDigits(a) ==
    StripZeros([i \in 1..(4 * Len(a)) |->
        (a[(i + 3) \div 4] \div (10 ^ (3 - ((i - 1) % 4)))) % 10])

(***************************************************************************)
(* Python floats: finite signed rationals, infinities and nan.             *)
(***************************************************************************)
Fin(neg, n, d) == [k |-> "fin", neg |-> neg, n |-> n, d |-> d]

Inf(neg) == [k |-> "inf", neg |-> neg, n |-> <<>>, d |-> <<>>]

NaN == [k |-> "nan", neg |-> FALSE, n |-> <<>>, d |-> <<>>]

\* Python's None, for a local that holds no number
NoValue == [k |-> "none", neg |-> FALSE, n |-> <<>>, d |-> <<>>]

\* the float literal whose digits are ds and whose decimal exponent is e
Lit(ds, e) ==
    IF e >= 0 THEN Fin(FALSE, MulPow10(FromDigits(ds), e), <<1>>)
    ELSE Fin(FALSE, FromDigits(ds), MulPow10(<<1>>, 0 - e))

\* n/d with the limbs of zero that n and d share removed
RECURSIVE Shorten(_, _, _)
Shorten(neg, n, d) ==
    IF n # <<>> /\ Len(d) > 1 /\ n[Len(n)] = 0 /\ d[Len(d)] = 0
    THEN Shorten(neg, SubSeq(n, 1, Len(n) - 1), SubSeq(d, 1, Len(d) - 1))
    ELSE Fin(neg, n, d)

NegF(x) == IF x.k = "nan" THEN x ELSE [x EXCEPT !.neg = ~x.neg]

IsZero(x) == x.k = "fin" /\ x.n = <<>>

\* x * y
MulF(x, y) ==
    IF x.k = "nan" \/ y.k = "nan" THEN NaN
    ELSE IF x.k = "inf" \/ y.k = "inf"
         THEN (IF IsZero(x) \/ IsZero(y) THEN NaN ELSE Inf(x.neg # y.neg))
    ELSE Shorten(x.neg # y.neg, MulN(x.n, y.n), MulN(x.d, y.d))

\* x / y for y # 0 (a zero divisor raises ZeroDivisionError; no factor is zero)
DivF(x, y) ==
    IF x.k = "nan" \/ y.k = "nan" THEN NaN
    ELSE IF x.k = "inf" THEN (IF y.k = "inf" THEN NaN ELSE Inf(x.neg # y.neg))
    ELSE IF y.k = "inf" THEN Fin(x.neg # y.neg, <<>>, <<1>>)
    ELSE Shorten(x.neg # y.neg, MulN(x.n, y.d), MulN(x.d, y.n))

\* x + y
\* a/d + b/d with the signs aneg and bneg
AddSigned(aneg, a, bneg, b, d) ==
    IF aneg = bneg THEN Shorten(aneg, AddN(a, b), d)
    ELSE IF a = b THEN Fin(FALSE, <<>>, d)
    ELSE IF LessN(a, b) THEN Shorten(bneg, SubN(b, a), d)
    ELSE Shorten(aneg, SubN(a, b), d)

AddF(x, y) ==
    IF x.k = "nan" \/ y.k = "nan" THEN NaN
    ELSE IF x.k = "inf"
         THEN (IF y.k = "inf" /\ x.neg # y.neg THEN NaN ELSE x)
    ELSE IF y.k = "inf" THEN y
    ELSE AddSigned(x.neg, MulN(x.n, y.d), y.neg, MulN(y.n, x.d), MulN(x.d, y.d))

\* x - y
SubF(x, y) == AddF(x, NegF(y))

\* x == y on floats (nan equals nothing, 0.0 == -0.0)
EqF(x, y) ==
    /\ x.k \in {"fin", "inf"}
    /\ x.k = y.k
    /\ IF x.k = "inf" THEN x.neg = y.neg
       ELSE /\ MulN(x.n, y.d) = MulN(y.n, x.d)
            /\ (x.n = <<>> \/ x.neg = y.neg)

(***************************************************************************)
(* Text: str.strip, str.replace(",", ""), str.lower, the "in" test on      *)
(* strings, str.rstrip and float(str).                                     *)
(***************************************************************************)
Whitespace == {" ", "\t", "\n"}

RECURSIVE LStrip(_)
LStrip(s) ==
    IF s # <<>> /\ Head(s) \in Whitespace THEN LStrip(Tail(s)) ELSE s

RECURSIVE RStripSet(_, _)
RStripSet(s, cs) ==
    IF s # <<>> /\ s[Len(s)] \in cs THEN RStripSet(SubSeq(s, 1, Len(s) - 1), cs)
    ELSE s

\* str.strip()
StrStrip(s) == RStripSet(LStrip(s), Whitespace)

\* str.rstrip(c) for one character c
RStrip(s, c) == RStripSet(s, {c})

\* str.replace(",", "")
RemoveCommas(s) == SelectSeq(s, LAMBDA c : c # ",")

UpperLetters ==
    <<"A", "B", "C", "D", "E", "F", "G", "H", "I", "J", "K", "L", "M",
      "N", "O", "P", "Q", "R", "S", "T", "U", "V", "W", "X", "Y", "Z">>

LowerLetters ==
    <<"a", "b", "c", "d", "e", "f", "g", "h", "i", "j", "k", "l", "m",
      "n", "o", "p", "q", "r", "s", "t", "u", "v", "w", "x", "y", "z">>

\* str.lower()
Lower(s) ==
    [i \in 1..Len(s) |->
        IF \E j \in 1..26 : UpperLetters[j] = s[i]
        THEN LowerLetters[CHOOSE j \in 1..26 : UpperLetters[j] = s[i]]
        ELSE s[i]]

\* sub in s
Contains(s, sub) ==
    \E i \in 1..(Len(s) - Len(sub) + 1) : SubSeq(s, i, i + Len(sub) - 1) = sub

DigitChars == <<"0", "1", "2", "3", "4", "5", "6", "7", "8", "9">>

IsDigit(c) == \E j \in 1..10 : DigitChars[j] = c

DigitVal(c) == (CHOOSE j \in 1..10 : DigitChars[j] = c) - 1

\* digit (["_"] digit)*
IsDigitPart(p) ==
    /\ p # <<>>
    /\ \A i \in 1..Len(p) : IsDigit(p[i]) \/ p[i] = "_"
    /\ IsDigit(p[1]) /\ IsDigit(p[Len(p)])
    /\ \A i \in 1..(Len(p) - 1) : ~(p[i] = "_" /\ p[i + 1] = "_")

DigitVals(ds) == [i \in 1..Len(ds) |-> DigitVal(ds[i])]

DigitsOf(p) == DigitVals(SelectSeq(p, IsDigit))

CapLimb(a) == IF a = <<>> THEN 0 ELSE IF Len(a) > 1 THEN Base - 1 ELSE a[1]

\* the value of an exponent's digits, capped at 9999
ExpVal(p) == CapLimb(FromDigits(DigitsOf(p)))

\* the float written by mantissa digits ds and decimal exponent e: a value
\* of 1e309 or more overflows to inf, a value under 1e-324 underflows to 0
\* (the exact thresholds, about 1.8e308 and 2.5e-324, lie within a decade)
ScaledStripped(neg, m, e) ==
    IF m = <<>> \/ Len(m) + e < 0 - 323 THEN Fin(neg, <<>>, <<1>>)
    ELSE IF Len(m) + e > 309 THEN Inf(neg)
    ELSE IF e >= 0 THEN Fin(neg, MulPow10(FromDigits(m), e), <<1>>)
    ELSE Shorten(neg, FromDigits(m), MulPow10(<<1>>, 0 - e))

Scaled(neg, ds, e) == ScaledStripped(neg, StripZeros(ds), e)

\* [sign] digits ["." digits] | [sign] "." digits, after the exponent is cut off
Parsed(v) == [ok |-> TRUE, v |-> v]

ValueError == [ok |-> FALSE, v |-> NoValue]

\* the integer part ip and the fraction fp around the only "."
ParsePointed(neg, ip, fp, e) ==
    IF /\ (ip = <<>> \/ IsDigitPart(ip))
       /\ (fp = <<>> \/ IsDigitPart(fp))
       /\ ~(ip = <<>> /\ fp = <<>>)
    THEN Parsed(Scaled(neg, DigitsOf(ip) \o DigitsOf(fp), e - Len(DigitsOf(fp))))
    ELSE ValueError

ParseAtDot(neg, mant, i, e) ==
    ParsePointed(neg, SubSeq(mant, 1, i - 1), SubSeq(mant, i + 1, Len(mant)), e)

ParseDots(neg, mant, dots, e) ==
    IF dots = {}
    THEN (IF IsDigitPart(mant) THEN Parsed(Scaled(neg, DigitsOf(mant), e)) ELSE ValueError)
    ELSE IF Cardinality(dots) = 1 THEN ParseAtDot(neg, mant, CHOOSE j \in dots : TRUE, e)
    ELSE ValueError

ParseMantissa(neg, mant, e) ==
    ParseDots(neg, mant, {i \in 1..Len(mant) : mant[i] = "."}, e)

\* the number after its sign: inf, infinity, nan, or a decimal with an
\* optional exponent
\* the mantissa mant and the exponent [sign] edig
ParseExponent(neg, mant, eneg, edig) ==
    IF IsDigitPart(edig)
    THEN ParseMantissa(neg, mant, IF eneg THEN 0 - ExpVal(edig) ELSE ExpVal(edig))
    ELSE ValueError

ParseSignedExponent(neg, mant, ex) ==
    ParseExponent(neg, mant, ex # <<>> /\ ex[1] = "-",
                  IF ex # <<>> /\ ex[1] \in {"+", "-"} THEN Tail(ex) ELSE ex)

ParseAtE(neg, body, i) ==
    ParseSignedExponent(neg, SubSeq(body, 1, i - 1), SubSeq(body, i + 1, Len(body)))

ParseLowered(neg, body, low, es) ==
    IF low = <<"i", "n", "f">> \/ low = <<"i", "n", "f", "i", "n", "i", "t", "y">>
    THEN Parsed(Inf(neg))
    ELSE IF low = <<"n", "a", "n">> THEN Parsed(NaN)
    ELSE IF es = {} THEN ParseMantissa(neg, body, 0)
    ELSE ParseAtE(neg, body, CHOOSE j \in es : \A k \in es : j <= k)

\* the number after its sign: inf, infinity, nan, or a decimal with an
\* optional exponent
ParseUnsigned(neg, body) ==
    ParseLowered(neg, body, Lower(body),
                 {i \in 1..Len(body) : body[i] \in {"e", "E"}})

ParseStripped(t) ==
    IF t = <<>> THEN ValueError
    ELSE IF t[1] \in {"+", "-"} THEN ParseUnsigned(t[1] = "-", Tail(t))
    ELSE ParseUnsigned(FALSE, t)

\* float(s): ValueError is ok = FALSE
PyFloat(s) == ParseStripped(StrStrip(s))

(***************************************************************************)
(* The category map and the factor dictionaries.  A dictionary is the      *)
(* sequence of its (key, value) pairs in insertion order.                  *)
(***************************************************************************)
Keys(m) == [i \in 1..Len(m) |-> m[i][1]]

HasKey(m, key) == \E i \in 1..Len(m) : m[i][1] = key

\* m[key], for a key of m
Get(m, key) == m[CHOOSE i \in 1..Len(m) : m[i][1] = key][2]

\* the values of CATEGORIES, in the order of its labels
CATEGORIES ==
    <<"temperature", "length", "mass", "volume", "time", "speed", "area",
      "energy", "power", "pressure", "density", "force", "data">>

LENGTH_TO_M ==
    << <<"Meter (m)", Lit(<<1>>, 0)>>,
       <<"Kilometer (km)", Lit(<<1, 0, 0, 0>>, 0)>>,
       <<"Centimeter (cm)", Lit(<<1>>, -2)>>,
       <<"Millimeter (mm)", Lit(<<1>>, -3)>>,
       <<"Inch (in)", Lit(<<2, 5, 4>>, -4)>>,
       <<"Foot (ft)", Lit(<<3, 0, 4, 8>>, -4)>>,
       <<"Yard (yd)", Lit(<<9, 1, 4, 4>>, -4)>>,
       <<"Mile (mi)", Lit(<<1, 6, 0, 9, 3, 4, 4>>, -3)>> >>

MASS_TO_KG ==
    << <<"Kilogram (kg)", Lit(<<1>>, 0)>>,
       <<"Gram (g)", Lit(<<1>>, -3)>>,
       <<"Milligram (mg)", Lit(<<1>>, -6)>>,
       <<"Pound (lb)", Lit(<<4, 5, 3, 5, 9, 2, 3, 7>>, -8)>>,
       <<"Ounce (oz)", Lit(<<2, 8, 3, 4, 9, 5, 2, 3, 1, 2, 5>>, -12)>>,
       <<"Tonne (t)", Lit(<<1, 0, 0, 0>>, 0)>> >>

TIME_TO_S ==
    << <<"Second (s)", Lit(<<1>>, 0)>>,
       <<"Millisecond (ms)", Lit(<<1>>, -3)>>,
       <<"Minute (min)", Lit(<<6, 0>>, 0)>>,
       <<"Hour (h)", Lit(<<3, 6, 0, 0>>, 0)>>,
       <<"Day (d)", Lit(<<8, 6, 4, 0, 0>>, 0)>>,
       <<"Week (wk)", Lit(<<6, 0, 4, 8, 0, 0>>, 0)>> >>

AREA_TO_M2 ==
    << <<"Square meter (m²)", Lit(<<1>>, 0)>>,
       <<"Square kilometer (km²)", Lit(<<1>>, 6)>>,
       <<"Square mile (mi²)", Lit(<<2, 5, 8, 9, 9, 8, 8, 1, 1, 0, 3, 3, 6>>, -6)>>,
       <<"Acre", Lit(<<4, 0, 4, 6, 8, 5, 6, 4, 2, 2, 4>>, -7)>>,
       <<"Hectare (ha)", Lit(<<1, 0, 0, 0, 0>>, 0)>>,
       <<"Square foot (ft²)", Lit(<<9, 2, 9, 0, 3, 0, 4>>, -8)>> >>

VOLUME_TO_M3 ==
    << <<"Cubic meter (m³)", Lit(<<1>>, 0)>>,
       <<"Litre (L)", Lit(<<1>>, -3)>>,
       <<"Millilitre (mL)", Lit(<<1>>, -6)>>,
       <<"Gallon (gal, US)", Lit(<<3, 7, 8, 5, 4, 1, 1, 7, 8, 4>>, -12)>>,
       <<"Pint (pt, US)", Lit(<<4, 7, 3, 1, 7, 6, 4, 7, 3>>, -12)>> >>

SPEED_TO_MS ==
    << <<"Meter/second (m/s)", Lit(<<1>>, 0)>>,
       <<"Kilometer/hour (km/h)", DivF(Lit(<<1, 0, 0, 0>>, 0), Lit(<<3, 6, 0, 0>>, 0))>>,
       <<"Mile/hour (mph)", DivF(Lit(<<1, 6, 0, 9, 3, 4, 4>>, -3), Lit(<<3, 6, 0, 0>>, 0))>>,
       <<"Knot (kt)", Lit(<<5, 1, 4, 4, 4, 4, 4, 4, 4>>, -9)>> >>

ENERGY_TO_J ==
    << <<"Joule (J)", Lit(<<1>>, 0)>>,
       <<"Kilojoule (kJ)", Lit(<<1, 0, 0, 0>>, 0)>>,
       <<"Calorie (cal)", Lit(<<4, 1, 8, 4>>, -3)>>,
       <<"Kilocalorie (kcal)", Lit(<<4, 1, 8, 4>>, 0)>>,
       <<"Watt-hour (Wh)", Lit(<<3, 6, 0, 0>>, 0)>>,
       <<"Kilowatt-hour (kWh)", Lit(<<3, 6>>, 5)>> >>

POWER_TO_W ==
    << <<"Watt (W)", Lit(<<1>>, 0)>>,
       <<"Kilowatt (kW)", Lit(<<1, 0, 0, 0>>, 0)>>,
       <<"Megawatt (MW)", Lit(<<1>>, 6)>>,
       <<"Horsepower (hp)", Lit(<<7, 4, 5, 6, 9, 9, 8, 7, 2>>, -6)>> >>

PRESSURE_TO_PA ==
    << <<"Pascal (Pa)", Lit(<<1>>, 0)>>,
       <<"Bar", Lit(<<1>>, 5)>>,
       <<"Atmosphere (atm)", Lit(<<1, 0, 1, 3, 2, 5>>, 0)>>,
       <<"PSI (psi)", Lit(<<6, 8, 9, 4, 7, 5, 7, 2, 9, 3, 1, 6, 8>>, -9)>>,
       <<"Torr (Torr)", Lit(<<1, 3, 3, 3, 2, 2, 3, 6, 8, 4, 2, 1, 1>>, -10)>> >>

DENSITY_TO_KGM3 ==
    << <<"Kilogram/m³ (kg/m³)", Lit(<<1>>, 0)>>,
       <<"Gram/cm³ (g/cm³)", Lit(<<1, 0, 0, 0>>, 0)>>,
       <<"Pound/ft³ (lb/ft³)", Lit(<<1, 6, 0, 1, 8, 4, 6, 3, 3, 7, 3, 9, 6, 1>>, -12)>> >>

FORCE_TO_N ==
    << <<"Newton (N)", Lit(<<1>>, 0)>>,
       <<"Kilonewton (kN)", Lit(<<1, 0, 0, 0>>, 0)>>,
       <<"Dyne (dyn)", Lit(<<1>>, -5)>>,
       <<"Pound-force (lbf)", Lit(<<4, 4, 4, 8, 2, 2, 1, 6, 1, 5, 2, 6, 0, 5>>, -13)>> >>

Kibi == Lit(<<1, 0, 2, 4>>, 0)

DATA_TO_B ==
    << <<"Bit (b)", DivF(Lit(<<1>>, 0), Lit(<<8>>, 0))>>,
       <<"Byte (B)", Lit(<<1>>, 0)>>,
       <<"Kilobyte (KB)", Kibi>>,
       <<"Megabyte (MB)", MulF(Kibi, Kibi)>>,
       <<"Gigabyte (GB)", MulF(MulF(Kibi, Kibi), Kibi)>>,
       <<"Terabyte (TB)", MulF(MulF(MulF(Kibi, Kibi), Kibi), Kibi)>> >>

TemperatureUnits == <<"Celsius (°C)", "Fahrenheit (°F)", "Kelvin (K)">>

(***************************************************************************)
(* The temperature transforms and the generic converter.                   *)
(***************************************************************************)
F5 == Lit(<<5>>, 0)

F9 == Lit(<<9>>, 0)

F32 == Lit(<<3, 2>>, 0)

F273_15 == Lit(<<2, 7, 3, 1, 5>>, -2)

celsius_to_fahrenheit(c) == AddF(DivF(MulF(c, F9), F5), F32)

fahrenheit_to_celsius(f) == DivF(MulF(SubF(f, F32), F5), F9)

celsius_to_kelvin(c) == AddF(c, F273_15)

kelvin_to_celsius(kv) == SubF(kv, F273_15)

fahrenheit_to_kelvin(f) == AddF(DivF(MulF(SubF(f, F32), F5), F9), F273_15)

kelvin_to_fahrenheit(kv) == AddF(DivF(MulF(SubF(kv, F273_15), F9), F5), F32)

convert_via_factors_swapped(value, from_unit, to_unit, factor_map) ==
    DivF(MulF(value, Get(factor_map, to_unit)), Get(factor_map, from_unit))

\* for from_unit and to_unit keys of factor_map (KeyError otherwise)
convert_via_factors(value, from_unit, to_unit, factor_map) ==
    DivF(MulF(value, Get(factor_map, from_unit)), Get(factor_map, to_unit))

(***************************************************************************)
(* format_number                                                           *)
(***************************************************************************)
\* x * 10^p rounded to an integer, ties to even; x finite
HalfEven(q, twice, d) ==
    IF LessN(d, twice) \/ (twice = d /\ q # <<>> /\ q[Len(q)] % 2 = 1)
    THEN AddN(q, <<1>>)
    ELSE q

RoundQuotient(dm, d) == HalfEven(dm.q, MulSmall(dm.r, 2), d)

RoundScaled(x, p) == RoundQuotient(DivModN(MulPow10(x.n, p), x.d), x.d)

\* round(x, p)
PyRound(x, p) ==
    IF x.k # "fin" THEN x ELSE Fin(x.neg, RoundScaled(x, p), MulPow10(<<1>>, p))

\* "{:.pf}".format(x)
\* the digits pd with a point before the last p of them
Pointed(pd, p) ==
    [i \in 1..(Len(pd) - p) |-> DigitChars[pd[i] + 1]]
    \o (IF p > 0
        THEN <<".">> \o [i \in 1..p |-> DigitChars[pd[Len(pd) - p + i] + 1]]
        ELSE <<>>)

FixedDigits(ds, p) == Pointed(PadTo(ds, IF Len(ds) > p THEN Len(ds) ELSE p + 1), p)

Sign(x) == IF x.neg THEN <<"-">> ELSE <<>>

\* "{:.pf}".format(x)
FormatFixed(x, p) ==
    IF x.k = "nan" THEN <<"n", "a", "n">>
    ELSE IF x.k = "inf" THEN Sign(x) \o <<"i", "n", "f">>
    ELSE Sign(x) \o FixedDigits(ToDigits(RoundScaled(x, p)), p)

\* if "." in fmt: fmt = fmt.rstrip("0").rstrip(".")
TrimFixed(fmt) ==
    IF Contains(fmt, <<".">>) THEN RStrip(RStrip(fmt, "0"), ".") ELSE fmt

format_number_strip_all(x, precision) ==
    RStripSet(FormatFixed(PyRound(x, precision), precision), {"0", "."})

format_number(x, precision) == TrimFixed(FormatFixed(PyRound(x, precision), precision))

\* the default of format_number's precision parameter
DefaultPrecision == 8

(***************************************************************************)
(* The script.  One run of app.py is one step; st.experimental_rerun()     *)
(* ends the Reset run early and queues the run that follows it.            *)
(***************************************************************************)
VARIABLES
    result,                 \* st.session_state.result
    formula,                \* st.session_state.formula
    last_input_signature,   \* st.session_state.last_input_signature
    category,               \* CATEGORIES[category_label]
    from_unit,              \* the "From Unit" selectbox
    to_unit,                \* the "To Unit" selectbox
    raw_value,              \* the "Value to convert" text input
    pc,                     \* "idle", or "rerun" while a rerun is queued
    event,                  \* what started the last run
    error,                  \* the error the last run reported, "" if none
    value,                  \* the local value of the last Convert
    result_value,           \* the local result_value of the last Convert
    cleared                 \* whether the last run discarded a stored result

vars ==
    <<result, formula, last_input_signature, category, from_unit, to_unit,
      raw_value, pc, event, error, value, result_value, cleared>>

\* the initial value of st.session_state.last_input_signature
None == <<"None">>

InvalidNumberMessage == "Please enter a valid number (for example: 12.5 or 1.2e3)."

UnknownCategoryMessage == "Unknown category selected."

\* the uncaught exception of a dictionary lookup
KeyError == "KeyError"

\* the list units of the selected category
Units(cat) ==
    IF cat = "temperature" THEN TemperatureUnits
    ELSE IF cat = "length" THEN Keys(LENGTH_TO_M)
    ELSE IF cat = "mass" THEN Keys(MASS_TO_KG)
    ELSE IF cat = "volume" THEN Keys(VOLUME_TO_M3)
    ELSE IF cat = "time" THEN Keys(TIME_TO_S)
    ELSE IF cat = "speed" THEN Keys(SPEED_TO_MS)
    ELSE IF cat = "area" THEN Keys(AREA_TO_M2)
    ELSE IF cat = "energy" THEN Keys(ENERGY_TO_J)
    ELSE IF cat = "power" THEN Keys(POWER_TO_W)
    ELSE IF cat = "pressure" THEN Keys(PRESSURE_TO_PA)
    ELSE IF cat = "density" THEN Keys(DENSITY_TO_KGM3)
    ELSE IF cat = "force" THEN Keys(FORCE_TO_N)
    ELSE IF cat = "data" THEN Keys(DATA_TO_B)
    ELSE <<>>

\* the selectbox defaults: index 0, and index 1 if len(units) > 1 else 0
DefaultFrom(cat) == Units(cat)[1]

DefaultTo(cat) == Units(cat)[IF Len(Units(cat)) > 1 THEN 2 ELSE 1]

\* f"{category}|{from_unit}|{to_unit}|{raw_value}"
InputSignature(cat, fu, tu, raw) == <<cat, "|", fu, "|", tu, "|">> \o raw

clear_result_keep_result(ss, signature) ==
    IF ss.last_input_signature # signature
    THEN [ss EXCEPT !.formula = "", !.last_input_signature = signature]
    ELSE ss

clear_result_keep_formula(ss, signature) ==
    IF ss.last_input_signature # signature
    THEN [ss EXCEPT !.result = <<>>, !.last_input_signature = signature]
    ELSE ss

clear_result_on_input_change(ss, signature) ==
    IF ss.last_input_signature # signature
    THEN [result |-> <<>>, formula |-> "", last_input_signature |-> signature]
    ELSE ss

\* the characters of the unit labels the temperature branch is given
LabelChars(u) ==
    CASE u = "Celsius (°C)" ->
           <<"C", "e", "l", "s", "i", "u", "s", " ", "(", "°", "C", ")">>
      [] u = "Fahrenheit (°F)" ->
           <<"F", "a", "h", "r", "e", "n", "h", "e", "i", "t", " ", "(", "°", "F", ")">>
      [] u = "Kelvin (K)" ->
           <<"K", "e", "l", "v", "i", "n", " ", "(", "K", ")">>
      [] u = "Rankine (°R)" ->
           <<"R", "a", "n", "k", "i", "n", "e", " ", "(", "°", "R", ")">>
      [] u = "Meter (m)" ->
           <<"M", "e", "t", "e", "r", " ", "(", "m", ")">>

Celsius == <<"c", "e", "l", "s", "i", "u", "s">>

Fahrenheit == <<"f", "a", "h", "r", "e", "n", "h", "e", "i", "t">>

Kelvin == <<"k", "e", "l", "v", "i", "n">>

\* a branch's result_value and formula_text (the captions' minus sign,
\* U+2212, is written "-")
Converted(rv, text) == [error |-> "", result_value |-> rv, formula_text |-> text]

TemperatureByNameKelvinFirst(v, f_low, t_low) ==
    IF Contains(f_low, Celsius) /\ Contains(t_low, Kelvin)
    THEN Converted(celsius_to_fahrenheit(v), "Formula: (°C × 9/5) + 32")
    ELSE IF Contains(f_low, Fahrenheit) /\ Contains(t_low, Celsius)
    THEN Converted(fahrenheit_to_celsius(v), "Formula: (°F - 32) × 5/9")
    ELSE IF Contains(f_low, Celsius) /\ Contains(t_low, Fahrenheit)
    THEN Converted(celsius_to_kelvin(v), "Formula: °C + 273.15")
    ELSE IF Contains(f_low, Kelvin) /\ Contains(t_low, Celsius)
    THEN Converted(kelvin_to_celsius(v), "Formula: K - 273.15")
    ELSE IF Contains(f_low, Fahrenheit) /\ Contains(t_low, Kelvin)
    THEN Converted(fahrenheit_to_kelvin(v), "Formula: (°F - 32) × 5/9 + 273.15")
    ELSE IF Contains(f_low, Kelvin) /\ Contains(t_low, Fahrenheit)
    THEN Converted(kelvin_to_fahrenheit(v), "Formula: (K - 273.15) × 9/5 + 32")
    ELSE Converted(v, "Formula: identity (same unit)")

TemperatureBranchKelvinFirst(v, fu, tu) ==
    TemperatureByNameKelvinFirst(v, Lower(LabelChars(fu)), Lower(LabelChars(tu)))

\* the chain of tests on the lowered unit names
TemperatureByName(v, f_low, t_low) ==
    IF Contains(f_low, Celsius) /\ Contains(t_low, Fahrenheit)
    THEN Converted(celsius_to_fahrenheit(v), "Formula: (°C × 9/5) + 32")
    ELSE IF Contains(f_low, Fahrenheit) /\ Contains(t_low, Celsius)
    THEN Converted(fahrenheit_to_celsius(v), "Formula: (°F - 32) × 5/9")
    ELSE IF Contains(f_low, Celsius) /\ Contains(t_low, Kelvin)
    THEN Converted(celsius_to_kelvin(v), "Formula: °C + 273.15")
    ELSE IF Contains(f_low, Kelvin) /\ Contains(t_low, Celsius)
    THEN Converted(kelvin_to_celsius(v), "Formula: K - 273.15")
    ELSE IF Contains(f_low, Fahrenheit) /\ Contains(t_low, Kelvin)
    THEN Converted(fahrenheit_to_kelvin(v), "Formula: (°F - 32) × 5/9 + 273.15")
    ELSE IF Contains(f_low, Kelvin) /\ Contains(t_low, Fahrenheit)
    THEN Converted(kelvin_to_fahrenheit(v), "Formula: (K - 273.15) × 9/5 + 32")
    ELSE Converted(v, "Formula: identity (same unit)")

\* the branch taken when category == "temperature"
TemperatureBranch(v, fu, tu) == TemperatureByName(v, Lower(LabelChars(fu)), Lower(LabelChars(tu)))

\* a branch of the generic converters; a missing key raises KeyError
FactorBranch(v, fu, tu, factor_map, text) ==
    IF HasKey(factor_map, fu) /\ HasKey(factor_map, tu)
    THEN Converted(convert_via_factors(v, fu, tu, factor_map), text)
    ELSE [error |-> KeyError, result_value |-> NoValue, formula_text |-> ""]

\* the chain of branches on category
CategoryDispatch(cat, v, fu, tu) ==
    IF cat = "temperature" THEN TemperatureBranch(v, fu, tu)
    ELSE IF cat = "length" THEN FactorBranch(v, fu, tu, LENGTH_TO_M,
        "Formula: normalize to meters (m), then convert. (value × factor_from) ÷ factor_to")
    ELSE IF cat = "mass" THEN FactorBranch(v, fu, tu, MASS_TO_KG,
        "Formula: normalize to kilograms (kg), then convert. (value × factor_from) ÷ factor_to")
    ELSE IF cat = "time" THEN FactorBranch(v, fu, tu, TIME_TO_S,
        "Formula: normalize to seconds (s), then convert. (value × factor_from) ÷ factor_to")
    ELSE IF cat = "area" THEN FactorBranch(v, fu, tu, AREA_TO_M2,
        "Formula: normalize to square meters (m²), then convert.")
    ELSE IF cat = "volume" THEN FactorBranch(v, fu, tu, VOLUME_TO_M3,
        "Formula: normalize to cubic meters (m³), then convert. Note: 1 L = 0.001 m³.")
    ELSE IF cat = "speed" THEN FactorBranch(v, fu, tu, SPEED_TO_MS,
        "Formula: normalize to m/s, then convert. (use length/time ratios)")
    ELSE IF cat = "energy" THEN FactorBranch(v, fu, tu, ENERGY_TO_J,
        "Formula: normalize to joules (J), then convert.")
    ELSE IF cat = "power" THEN FactorBranch(v, fu, tu, POWER_TO_W,
        "Formula: normalize to watts (W), then convert.")
    ELSE IF cat = "pressure" THEN FactorBranch(v, fu, tu, PRESSURE_TO_PA,
        "Formula: normalize to pascals (Pa), then convert.")
    ELSE IF cat = "density" THEN FactorBranch(v, fu, tu, DENSITY_TO_KGM3,
        "Formula: multiply by factor to get kg/m³ then convert.")
    ELSE IF cat = "force" THEN FactorBranch(v, fu, tu, FORCE_TO_N,
        "Formula: normalize to newtons (N), then convert.")
    ELSE IF cat = "data" THEN FactorBranch(v, fu, tu, DATA_TO_B,
        "Formula: normalize to bytes (B), then convert. (We use 1 KB = 1024 B)")
    ELSE [error |-> UnknownCategoryMessage, result_value |-> NoValue, formula_text |-> ""]

\* val_str = raw_value.strip().replace(",", ""); value = float(val_str)
ParseValue(raw) == PyFloat(RemoveCommas(StrStrip(raw)))

\* what a run leaves behind: the session state, the error shown and the locals
Outcome(ss, err, v, rv) == [ss |-> ss, error |-> err, value |-> v, result_value |-> rv]

ParseFailedSilently(ss) ==
    Outcome([ss EXCEPT !.result = <<>>, !.formula = ""], "", NoValue, NoValue)

\* the except branch of the parse
ParseFailed(ss) ==
    Outcome([ss EXCEPT !.result = <<>>, !.formula = ""], InvalidNumberMessage,
            NoValue, NoValue)

StoreResultUnformatted(ss, v, fu, tu, rv, text) ==
    Outcome([ss EXCEPT !.result = <<" ", fu, " ", "=", " ", " ", tu>>, !.formula = text],
            "", v, rv)

\* f"{format_number(value)} {from_unit} = {format_number(result_value)} {to_unit}"
StoreResult(ss, v, fu, tu, rv, text) ==
    Outcome([ss EXCEPT
                !.result = format_number(v, DefaultPrecision) \o <<" ", fu, " ", "=", " ">>
                           \o format_number(rv, DefaultPrecision) \o <<" ", tu>>,
                !.formula = text],
            "", v, rv)

\* after the branches: an uncaught KeyError ends the run, an unknown
\* category clears the result, "if result_value is not None" stores it
AfterDispatch(ss, v, fu, tu, c) ==
    IF c.error = KeyError THEN Outcome(ss, KeyError, v, NoValue)
    ELSE IF c.result_value = NoValue
    THEN Outcome([ss EXCEPT !.result = <<>>, !.formula = ""], c.error, v, NoValue)
    ELSE StoreResult(ss, v, fu, tu, c.result_value, c.formula_text)

\* try: ... except Exception: ... else: ...
AfterParse(ss, cat, fu, tu, p) ==
    IF ~p.ok THEN ParseFailed(ss)
    ELSE AfterDispatch(ss, p.v, fu, tu, CategoryDispatch(cat, p.v, fu, tu))

\* the body of "if convert_clicked:"
ConvertClicked(ss, cat, fu, tu, raw) == AfterParse(ss, cat, fu, tu, ParseValue(raw))

\* the script from the Convert button down to the output area
AfterClear(s1, cat, fu, tu, raw, convert_clicked) ==
    IF convert_clicked THEN ConvertClicked(s1, cat, fu, tu, raw)
    ELSE Outcome(s1, "", NoValue, NoValue)

\* one run of the script without Reset, down to the output area
ScriptRun(ss, cat, fu, tu, raw, convert_clicked) ==
    AfterClear(clear_result_on_input_change(ss, InputSignature(cat, fu, tu, raw)),
               cat, fu, tu, raw, convert_clicked)

\* whether the run that turned the session state ss into s1 or into its
\* outcome dropped a result that ss held
Discards(ss, s1) == ss.result # <<>> /\ s1.result = <<>>

ResetHandlerKeepResult(ss) == [ss EXCEPT !.formula = "", !.last_input_signature = None]

\* the body of 'if st.button("Reset"):', before the rerun
ResetHandler(ss) == [result |-> <<>>, formula |-> "", last_input_signature |-> None]

Session == [result |-> result, formula |-> formula,
            last_input_signature |-> last_input_signature]

(***************************************************************************)
(* The session: the user changes an input, clicks Convert or clicks Reset, *)
(* and the script runs.  A text edit and a click on Convert that reach the *)
(* server together are served by one run.  Widget values outlive a rerun.  *)
(***************************************************************************)
\* the texts the user types, in the order the bound admits them
RawTextList ==
    << <<>>,
       <<"1">>,
       <<"a", "b", "c">>,
       <<"i", "n", "f">>,
       <<"3", ".", "5">>,
       <<"n", "a", "n">>,
       <<"1", ".", "2", ".", "3">> >>

MaxTexts == 4

RawTexts == {RawTextList[i] : i \in 1..MaxTexts}

Init ==
    /\ category = CATEGORIES[1]
    /\ from_unit = DefaultFrom(CATEGORIES[1])
    /\ to_unit = DefaultTo(CATEGORIES[1])
    /\ raw_value = <<>>
    /\ result = <<>>
    /\ formula = ""
    /\ last_input_signature =
         InputSignature(CATEGORIES[1], DefaultFrom(CATEGORIES[1]),
                        DefaultTo(CATEGORIES[1]), <<>>)
    /\ pc = "idle"
    /\ event = "start"
    /\ error = ""
    /\ value = NoValue
    /\ result_value = NoValue
    /\ cleared = FALSE

\* the run started by ev with the widgets at cat, fu, tu, raw
Serve(ev, cat, fu, tu, raw, convert_clicked) ==
    \E o \in {ScriptRun(Session, cat, fu, tu, raw, convert_clicked)} :
        /\ category' = cat
        /\ from_unit' = fu
        /\ to_unit' = tu
        /\ raw_value' = raw
        /\ result' = o.ss.result
        /\ formula' = o.ss.formula
        /\ last_input_signature' = o.ss.last_input_signature
        /\ pc' = "idle"
        /\ event' = ev
        /\ error' = o.error
        /\ value' = o.value
        /\ result_value' = o.result_value
        /\ cleared' = Discards(Session, o.ss)

SelectCategory ==
    /\ pc = "idle"
    /\ \E i \in 1..Len(CATEGORIES) :
         /\ CATEGORIES[i] # category
         /\ Serve("input", CATEGORIES[i], DefaultFrom(CATEGORIES[i]),
                  DefaultTo(CATEGORIES[i]), raw_value, FALSE)

SelectFromUnit ==
    /\ pc = "idle"
    /\ \E i \in 1..Len(Units(category)) :
         /\ Units(category)[i] # from_unit
         /\ Serve("input", category, Units(category)[i], to_unit, raw_value, FALSE)

SelectToUnit ==
    /\ pc = "idle"
    /\ \E i \in 1..Len(Units(category)) :
         /\ Units(category)[i] # to_unit
         /\ Serve("input", category, from_unit, Units(category)[i], raw_value, FALSE)

EditValue ==
    /\ pc = "idle"
    /\ \E t \in RawTexts :
         /\ t # raw_value
         /\ Serve("input", category, from_unit, to_unit, t, FALSE)

ClickConvert ==
    /\ pc = "idle"
    /\ Serve("convert", category, from_unit, to_unit, raw_value, TRUE)

EditValueAndConvert ==
    /\ pc = "idle"
    /\ \E t \in RawTexts :
         /\ t # raw_value
         /\ Serve("convert", category, from_unit, to_unit, t, TRUE)

\* the Reset run: the handler, then st.experimental_rerun() ends the run
ClickReset ==
    /\ pc = "idle"
    /\ \E s \in {ResetHandler(Session)} :
         /\ result' = s.result
         /\ formula' = s.formula
         /\ last_input_signature' = s.last_input_signature
         /\ cleared' = Discards(Session, s)
    /\ pc' = "rerun"
    /\ event' = "reset"
    /\ error' = ""
    /\ value' = NoValue
    /\ result_value' = NoValue
    /\ UNCHANGED <<category, from_unit, to_unit, raw_value>>

\* the run queued by st.experimental_rerun()
Rerun ==
    /\ pc = "rerun"
    /\ \E o \in {ScriptRun(Session, category, from_unit, to_unit, raw_value, FALSE)} :
           /\ result' = o.ss.result
           /\ formula' = o.ss.formula
           /\ last_input_signature' = o.ss.last_input_signature
           /\ error' = o.error
    /\ pc' = "idle"
    /\ UNCHANGED <<category, from_unit, to_unit, raw_value, event, value,
                   result_value, cleared>>

Next ==
    \/ SelectCategory
    \/ SelectFromUnit
    \/ SelectToUnit
    \/ EditValue
    \/ ClickConvert
    \/ EditValueAndConvert
    \/ ClickReset
    \/ Rerun

Spec == Init /\ [][Next]_vars

(***************************************************************************)
(* The conversion block on its own: the code under "if convert_clicked:"   *)
(* applied once to inputs drawn from bounded sets, among them unit labels  *)
(* that are not in the category's list and a category that is not in       *)
(* CATEGORIES.                                                             *)
(***************************************************************************)
EngineTextList ==
    << <<"1">>,
       <<"0">>,
       <<"1", "0", "0">>,
       <<"3", ".", "5">>,
       <<"4">>,
       <<"-", "4", "0">>,
       <<"i", "n", "f">>,
       <<"a", "b", "c">>,
       <<"1", ",", "2", "3", "4", ".", "5">>,
       <<"1", ".", "2", "e", "3">>,
       <<"n", "a", "n">> >>

MaxEngineTexts == 9

EngineTexts == {EngineTextList[i] : i \in 1..MaxEngineTexts}

\* labels that belong to no category, or to another one
ForeignUnits == {"Rankine (°R)", "Meter (m)"}

UnknownCategory == "currency"

UnitSet(cat) == {Units(cat)[i] : i \in 1..Len(Units(cat))}

EngineInit ==
    /\ category \in {CATEGORIES[i] : i \in 1..Len(CATEGORIES)} \cup {UnknownCategory}
    /\ from_unit \in UnitSet(category) \cup ForeignUnits
    /\ to_unit \in UnitSet(category) \cup ForeignUnits
    /\ raw_value \in EngineTexts
    /\ result = <<>>
    /\ formula = ""
    /\ last_input_signature = InputSignature(category, from_unit, to_unit, raw_value)
    /\ pc = "idle"
    /\ event = "start"
    /\ error = ""
    /\ value = NoValue
    /\ result_value = NoValue
    /\ cleared = FALSE

EngineConvert ==
    /\ pc = "idle"
    /\ \E o \in {ConvertClicked(Session, category, from_unit, to_unit, raw_value)} :
         /\ result' = o.ss.result
         /\ formula' = o.ss.formula
         /\ last_input_signature' = o.ss.last_input_signature
         /\ error' = o.error
         /\ value' = o.value
         /\ result_value' = o.result_value
    /\ pc' = "done"
    /\ event' = "convert"
    /\ UNCHANGED <<category, from_unit, to_unit, raw_value, cleared>>

EngineNext == EngineConvert

SpecEngine == EngineInit /\ [][EngineNext]_vars

(***************************************************************************)
(* Properties.                                                             *)
(***************************************************************************)
InputTuple == <<category, from_unit, to_unit, raw_value>>

CurrentSignature == InputSignature(category, from_unit, to_unit, raw_value)

ConvertSucceeded == event = "convert" /\ error = ""

\* C1: when a run's input tuple differs from the tuple remembered before it
\* (the tuple of the preceding run, or none after Reset), the result and the
\* formula are empty when its output area is rendered unless Convert
\* succeeded in that run; a result that is shown carries the signature and
\* the unit labels of the current inputs.
C1_StaleResultCleared ==
    [][/\ (/\ pc' = "idle"
           /\ (pc = "rerun" \/ InputTuple' # InputTuple)
           /\ ~ConvertSucceeded')
          => (result' = <<>> /\ formula' = "")
       /\ (pc' = "idle" /\ result' # <<>>)
          => /\ last_input_signature' = CurrentSignature'
             /\ result'[Len(result')] = to_unit'
             /\ \E i \in 1..Len(result') : result'[i] = from_unit']_vars

\* a run served an input change and discarded the result stored before it
C1_Witness ==
    /\ pc = "idle"
    /\ event = "input"
    /\ cleared
    /\ result = <<>>
    /\ last_input_signature = CurrentSignature

\* C2 as stated: after Reset and its rerun the result is empty and
\* last_input_signature is None.
C2_Original ==
    (event = "reset" /\ pc = "idle")
        => (result = <<>> /\ last_input_signature = None)

\* C2 amended: after Reset the result and the formula are empty, before and
\* after the rerun; last_input_signature is None until the rerun, which sets
\* it to the signature of the current inputs.
C2_ResetClears ==
    event = "reset"
        => /\ result = <<>>
           /\ formula = ""
           /\ pc = "rerun" => last_input_signature = None
           /\ pc = "idle" => last_input_signature = CurrentSignature

\* Reset was clicked while a result was stored, and its rerun has completed
C2_Witness ==
    /\ event = "reset"
    /\ pc = "idle"
    /\ cleared
    /\ result = <<>>

\* C3: a Convert whose text parses ends Resolved: no error, the result is
\* the non-empty string "{format(value)} {from} = {format(result)} {to}" of
\* the current inputs and the remembered signature is the current one.
C3_ConvertResolves ==
    (/\ pc = "idle"
     /\ event = "convert"
     /\ ParseValue(raw_value).ok
     /\ from_unit \in UnitSet(category)
     /\ to_unit \in UnitSet(category))
        => /\ error = ""
           /\ value = ParseValue(raw_value).v
           /\ result_value # NoValue
           /\ result # <<>>
           /\ result = format_number(value, DefaultPrecision)
                       \o <<" ", from_unit, " ", "=", " ">>
                       \o format_number(result_value, DefaultPrecision)
                       \o <<" ", to_unit>>
           /\ last_input_signature = CurrentSignature

\* Convert stored "1 Kilometer (km) = 1000 Meter (m)"
C3_Witness ==
    /\ pc = "idle"
    /\ event = "convert"
    /\ InputTuple = <<"length", "Kilometer (km)", "Meter (m)", <<"1">> >>
    /\ result = <<"1", " ", "Kilometer (km)", " ", "=", " ",
                  "1", "0", "0", "0", " ", "Meter (m)">>

\* C4: a Convert whose text does not parse reports the invalid-number
\* error, leaves the result and the formula empty, computes nothing, and
\* the script is idle again, ready for the next action.
C4_ParseFailureIdle ==
    (event = "convert" /\ ~ParseValue(raw_value).ok)
        => /\ error = InvalidNumberMessage
           /\ result = <<>>
           /\ formula = ""
           /\ value = NoValue
           /\ result_value = NoValue
           /\ pc = "idle"

\* a text that does not parse was converted in the run that replaced the
\* text of a stored result
C4_Witness ==
    /\ event = "convert"
    /\ raw_value = <<"a", "b", "c">>
    /\ error = InvalidNumberMessage
    /\ cleared

\* a text that is empty or not a number, or that denotes infinity or nan
Rejectable(raw) ==
    \/ ~ParseValue(raw).ok
    \/ ParseValue(raw).v.k \in {"inf", "nan"}

\* C5 as stated: a Convert of an empty, non-numeric, infinite or nan text
\* reports the invalid-number error and stores no result.
C5_Original ==
    (event = "convert" /\ Rejectable(raw_value))
        => (error = InvalidNumberMessage /\ result = <<>>)

OwnTable(cat) ==
    CASE cat = "length" -> LENGTH_TO_M
      [] cat = "mass" -> MASS_TO_KG
      [] cat = "time" -> TIME_TO_S
      [] cat = "area" -> AREA_TO_M2
      [] cat = "volume" -> VOLUME_TO_M3
      [] cat = "speed" -> SPEED_TO_MS
      [] cat = "energy" -> ENERGY_TO_J
      [] cat = "power" -> POWER_TO_W
      [] cat = "pressure" -> PRESSURE_TO_PA
      [] cat = "density" -> DENSITY_TO_KGM3
      [] cat = "force" -> FORCE_TO_N
      [] cat = "data" -> DATA_TO_B

LinearCategories == {CATEGORIES[i] : i \in 2..Len(CATEGORIES)}

ValidRequest ==
    /\ pc = "done"
    /\ value # NoValue
    /\ from_unit \in UnitSet(category)
    /\ to_unit \in UnitSet(category)

\* the stored result reads "a fu = b tu"
Shows(a, fu, b, tu) == result = a \o <<" ", fu, " ", "=", " ">> \o b \o <<" ", tu>>

\* C7: in a category other than Temperature the converted value r of a
\* value v satisfies r * factor(to) = v * factor(from) with the factors of
\* the category's own table; 1 Kilometer is 1000 Meter, 1 Gigabyte is
\* 1073741824 Byte and 1 Hour is 3600 Second.
C7_LinearConversion ==
    (ValidRequest /\ category \in LinearCategories)
        => /\ error = ""
           /\ result_value.k = value.k
           /\ value.k = "fin"
                => EqF(MulF(result_value, Get(OwnTable(category), to_unit)),
                       MulF(value, Get(OwnTable(category), from_unit)))
           /\ (raw_value = <<"1">> /\ from_unit = "Kilometer (km)" /\ to_unit = "Meter (m)")
                => Shows(<<"1">>, "Kilometer (km)", <<"1", "0", "0", "0">>, "Meter (m)")
           /\ (raw_value = <<"1">> /\ from_unit = "Gigabyte (GB)" /\ to_unit = "Byte (B)")
                => Shows(<<"1">>, "Gigabyte (GB)",
                         <<"1", "0", "7", "3", "7", "4", "1", "8", "2", "4">>, "Byte (B)")
           /\ (raw_value = <<"1">> /\ from_unit = "Hour (h)" /\ to_unit = "Second (s)")
                => Shows(<<"1">>, "Hour (h)", <<"3", "6", "0", "0">>, "Second (s)")

\* 3.5 Mile (mi) was converted to Kilometer (km)
C7_Witness ==
    /\ pc = "done"
    /\ InputTuple = <<"length", "Mile (mi)", "Kilometer (km)", <<"3", ".", "5">> >>
    /\ Shows(<<"3", ".", "5">>, "Mile (mi)",
             <<"5", ".", "6", "3", "2", "7", "0", "4">>, "Kilometer (km)")

\* the transform and the caption of a pair of temperature units
ExpectedTemperature(v, fu, tu) ==
    CASE fu = "Celsius (°C)" /\ tu = "Fahrenheit (°F)" ->
           Converted(celsius_to_fahrenheit(v), "Formula: (°C × 9/5) + 32")
      [] fu = "Fahrenheit (°F)" /\ tu = "Celsius (°C)" ->
           Converted(fahrenheit_to_celsius(v), "Formula: (°F - 32) × 5/9")
      [] fu = "Celsius (°C)" /\ tu = "Kelvin (K)" ->
           Converted(celsius_to_kelvin(v), "Formula: °C + 273.15")
      [] fu = "Kelvin (K)" /\ tu = "Celsius (°C)" ->
           Converted(kelvin_to_celsius(v), "Formula: K - 273.15")
      [] fu = "Fahrenheit (°F)" /\ tu = "Kelvin (K)" ->
           Converted(fahrenheit_to_kelvin(v), "Formula: (°F - 32) × 5/9 + 273.15")
      [] fu = "Kelvin (K)" /\ tu = "Fahrenheit (°F)" ->
           Converted(kelvin_to_fahrenheit(v), "Formula: (K - 273.15) × 9/5 + 32")
      [] fu = tu -> Converted(v, "Formula: identity (same unit)")

\* C8: each of the nine ordered pairs of temperature units selects its own
\* transform and caption, identity for the three same-unit pairs; 0 Celsius
\* is 32 Fahrenheit and 100 Celsius is 212 Fahrenheit.
C8_TemperaturePairs ==
    (ValidRequest /\ category = "temperature")
        => /\ error = ""
           /\ result_value = ExpectedTemperature(value, from_unit, to_unit).result_value
           /\ formula = ExpectedTemperature(value, from_unit, to_unit).formula_text
           /\ from_unit = to_unit => result_value = value
           /\ (raw_value = <<"0">> /\ from_unit = "Celsius (°C)" /\ to_unit = "Fahrenheit (°F)")
                => Shows(<<"0">>, "Celsius (°C)", <<"3", "2">>, "Fahrenheit (°F)")
           /\ (raw_value = <<"1", "0", "0">> /\ from_unit = "Celsius (°C)"
                                              /\ to_unit = "Fahrenheit (°F)")
                => Shows(<<"1", "0", "0">>, "Celsius (°C)", <<"2", "1", "2">>,
                         "Fahrenheit (°F)")

\* -40 Fahrenheit was converted to Kelvin
C8_Witness ==
    /\ pc = "done"
    /\ InputTuple = <<"temperature", "Fahrenheit (°F)", "Kelvin (K)", <<"-", "4", "0">> >>
    /\ formula = "Formula: (°F - 32) × 5/9 + 273.15"
    /\ Shows(<<"-", "4", "0">>, "Fahrenheit (°F)",
             <<"2", "3", "3", ".", "1", "5">>, "Kelvin (K)")

\* the two formatted numbers of a stored result
FirstSpace == CHOOSE i \in 1..Len(result) : result[i] = " " /\ \A j \in 1..(i - 1) : result[j] # " "

FormattedInput == SubSeq(result, 1, FirstSpace - 1)

FormattedResult == SubSeq(result, FirstSpace + 5, Len(result) - 2)

\* o renders x in fixed point at 8 places with the fraction's trailing
\* zeros and a trailing point removed
TrimmedFixedPoint(o, x) ==
    IF x.k # "fin" THEN o = FormatFixed(x, DefaultPrecision)
    ELSE /\ o # <<>>
         /\ \A i \in 1..Len(o) : IsDigit(o[i]) \/ o[i] = "." \/ (o[i] = "-" /\ i = 1)
         /\ o[Len(o)] # "."
         /\ Contains(o, <<".">>) => o[Len(o)] # "0"
         /\ Len(o) <= Len(FormatFixed(PyRound(x, DefaultPrecision), DefaultPrecision))
         /\ PyFloat(o).ok
         /\ EqF(PyFloat(o).v, PyRound(x, DefaultPrecision))

\* C9: format_number renders a number in fixed point, rounded to 8 places,
\* without the trailing zeros of the fraction and without a trailing point,
\* keeps the zeros of the integer part and uses no exponent: 4 is "4", 3.5
\* is "3.5" and 100 is "100".
C9_FormatNumber ==
    (pc = "done" /\ result # <<>>)
        => /\ TrimmedFixedPoint(FormattedInput, value)
           /\ TrimmedFixedPoint(FormattedResult, result_value)
           /\ raw_value = <<"4">> => FormattedInput = <<"4">>
           /\ raw_value = <<"3", ".", "5">> => FormattedInput = <<"3", ".", "5">>
           /\ raw_value = <<"1", "0", "0">> => FormattedInput = <<"1", "0", "0">>

\* 100 Inch (in) was formatted next to its 2.54 Meter (m)
C9_Witness ==
    /\ pc = "done"
    /\ InputTuple = <<"length", "Inch (in)", "Meter (m)", <<"1", "0", "0">> >>
    /\ FormattedInput = <<"1", "0", "0">>
    /\ FormattedResult = <<"2", ".", "5", "4">>

\* C10: the result and the formula are both empty or both non-empty, and a
\* formula that is stored is the caption of the conversion of the current
\* inputs, the one that produced the stored result.
C10_ResultAndFormulaAgree ==
    /\ (result = <<>>) <=> (formula = "")
    /\ formula # ""
         => /\ value # NoValue
            /\ formula = CategoryDispatch(category, value, from_unit, to_unit).formula_text

\* a same-unit temperature conversion is stored with its caption
C10_Witness ==
    /\ pc = "idle"
    /\ result # <<>>
    /\ from_unit = to_unit
    /\ formula = "Formula: identity (same unit)"

=============================================================================
